---- MODULE Spec2Model ----
(***************************************************************************)
(* GoogleMapsConverter (google_maps_converter_python_1751340999298.py):    *)
(* the Web Mercator pixel <-> latitude/longitude converter, its            *)
(* constructor, its four read operations and the two module-level          *)
(* convenience functions.                                                  *)
(*                                                                         *)
(* Numbers.  The source computes in IEEE-754 doubles: every operation      *)
(* rounds its exact result to the nearest representable value, ties to     *)
(* even.  The model keeps that discipline on decimal grids that fit TLC's  *)
(* 32-bit integers: a quantity is an integer count of grid units and every *)
(* multiplication or division rounds to the nearest unit, ties to even.    *)
(*     degrees (lat, lng)              1 unit = 1/DEG degree               *)
(*     radians, sin, cos, log          1 unit = 1/Q                        *)
(*     Web Mercator coordinates        1 unit = 1/MS metre                 *)
(*     metre offsets and distances     1 unit = 1/MF metre                 *)
(*     pixels                          1 unit = 1/PS pixel                 *)
(*     metres per pixel                1 unit = 1/RS metre per pixel       *)
(* A Mercator coordinate (around 10^7 m) carries fewer fractional digits   *)
(* than a metre offset (around 10^2 m), as a double does: adding an offset *)
(* to a coordinate rounds the offset to the coordinate's grid.  tan and    *)
(* exp span many orders of magnitude, so their value is kept as a ratio    *)
(* <<n, d>> of two grid numbers.                                           *)
(***************************************************************************)
EXTENDS Integers, Sequences, FiniteSets, TLC

\* ------------------------------------------------------------- the grids
Q   == 10^8
DEG == 10^6
MS  == 10^1
MF  == 10^3
PS  == 10^3
RS  == 10^4

\* ------------------------------------------------ rounding arithmetic
Abs(a) == IF a < 0 THEN -a ELSE a
Sgn(a) == IF a < 0 THEN -1 ELSE IF a > 0 THEN 1 ELSE 0

\* The largest magnitude the grids carry.  A double beyond it is finite but
\* stands outside the model's range: a result saturates at HUGE, which keeps
\* its sign and the fact that it is large.
HUGE == 2 * 10^9

\* <<quotient, remainder>> of a * b by c, for a, b >= 0 and c > 0, without
\* forming the product a * b (which exceeds 32 bits): long multiplication over
\* the digits of a in radix B, reducing modulo c at every digit.  The
\* quotient saturates at HUGE.
RECURSIVE MulDivRem(_, _, _, _)
MulDivRem(a, b, c, B) ==
    IF a = 0 THEN <<0, 0>>
    ELSE LET Digit(h, d) ==
                 LET t == B * h[2] + d * (b % c)
                 IN  IF h[1] >= HUGE \div B THEN <<HUGE, 0>>
                     ELSE IF d > 0 /\ (b \div c) >= HUGE \div d THEN <<HUGE, 0>>
                     ELSE IF B * h[1] >= HUGE - d * (b \div c) - (t \div c)
                          THEN <<HUGE, 0>>
                     ELSE <<B * h[1] + d * (b \div c) + (t \div c), t % c>>
         IN  Digit(MulDivRem(a \div B, b, c, B), a % B)

\* The largest radix whose partial sums (2B - 1) * c stay below 2^31.
Radix(c) == IF c <= 69273666 THEN 16 ELSE IF c <= 306783378 THEN 4 ELSE 2

\* A quotient q with remainder r of a division by c, rounded to the nearest
\* integer, ties to even (IEEE-754's rounding).
RoundEven(q, r, c) == IF 2 * r > c \/ (2 * r = c /\ q % 2 = 1) THEN q + 1 ELSE q

\* a / c rounded (one float division on the result's grid).  c # 0.
Div(a, c) ==
    IF a = 0 THEN 0
    ELSE Sgn(a) * Sgn(c) * RoundEven(Abs(a) \div Abs(c), Abs(a) % Abs(c), Abs(c))

\* a * b / c rounded (a float product or quotient carried to the result's
\* grid).  c # 0.
MulDiv(a, b, c) ==
    IF a = 0 \/ b = 0 THEN 0
    ELSE LET lo == IF Abs(a) <= Abs(b) THEN Abs(a) ELSE Abs(b)
             hi == IF Abs(a) <= Abs(b) THEN Abs(b) ELSE Abs(a)
             Rounded(qr) == RoundEven(qr[1], qr[2], Abs(c))
         IN  Sgn(a) * Sgn(b) * Sgn(c)
                 * Rounded(MulDivRem(lo, hi, Abs(c), Radix(Abs(c))))

\* Product of two dimensionless grid numbers, a * b / Q rounded: the four
\* partial products of the operands split at 10^4.
MulQ(a, b) ==
    IF a = 0 \/ b = 0 THEN 0
    ELSE LET a1 == Abs(a) \div 10000
             a0 == Abs(a) % 10000
             b1 == Abs(b) \div 10000
             b0 == Abs(b) % 10000
             m1 == a1 * b0
             m2 == a0 * b1
             m0 == a0 * b0
             mid == (m1 % 10000) + (m2 % 10000) + (m0 \div 10000)
             q == a1 * b1 + (m1 \div 10000) + (m2 \div 10000) + (mid \div 10000)
             r == (mid % 10000) * 10000 + (m0 % 10000)
         IN  Sgn(a) * Sgn(b) * RoundEven(q, r, Q)

\* ------------------------------------------------------ the math module
\* math.pi: the double below pi (3.14159265358979 3...); here the grid number
\* below pi.
PI == 314159265
\* pi / 2 and ln 2 to the grid, as the library's argument reductions hold them.
HALFPI == 157079633
LN2 == 69314718
\* tan(pi / 8), where atan switches to its reduced argument.
TANPI8 == 41421356

\* Horner's rule for a power series whose terms are each the previous one
\* times x2 / d: s <- 1 + sign * x2 * s / d over the divisors ds, innermost
\* first.
RECURSIVE Taylor(_, _, _, _)
Taylor(x2, s, ds, sign) ==
    IF ds = <<>> THEN s
    ELSE IF s = 0 THEN Taylor(x2, Q, Tail(ds), sign)
    ELSE Taylor(x2, Q + sign * Div(MulQ(x2, s), Head(ds)), Tail(ds), sign)

\* Horner's rule for a series in odd powers with coefficients 1 / d:
\* s <- 1 / d + sign * z2 * s over the divisors ds, innermost first.
RECURSIVE OddSeries(_, _, _, _)
OddSeries(z2, s, ds, sign) ==
    IF ds = <<>> THEN s
    ELSE IF s = 0 THEN OddSeries(z2, Div(Q, Head(ds)), Tail(ds), sign)
    ELSE OddSeries(z2, Div(Q, Head(ds)) + sign * MulQ(z2, s), Tail(ds), sign)

\* sin and cos on [0, pi/4].
SinSeries(x) == MulQ(x, Taylor(MulQ(x, x), Q, <<156, 110, 72, 42, 20, 6>>, -1))
CosSeries(x) == Taylor(MulQ(x, x), Q, <<132, 90, 56, 30, 12, 2>>, -1)

\* sin and cos on [0, pi/2].
SinQuadrant(x) == IF 2 * x <= HALFPI THEN SinSeries(x) ELSE CosSeries(HALFPI - x)
CosQuadrant(x) == IF 2 * x <= HALFPI THEN CosSeries(x) ELSE SinSeries(HALFPI - x)

\* The argument reduced to (-pi, pi].
Reduce(x) ==
    LET m == Abs(x) % (2 * PI)
        r == IF m > PI THEN m - 2 * PI ELSE m
    IN  IF x < 0 /\ r # PI THEN -r ELSE r

\* math.sin and math.cos.
Sin(x) ==
    LET Odd(r) ==
            Sgn(r) * SinQuadrant(IF Abs(r) <= HALFPI THEN Abs(r) ELSE PI - Abs(r))
    IN  Odd(Reduce(x))

Cos(x) ==
    LET Even(a) ==
            (IF a <= HALFPI THEN 1 ELSE -1)
                * CosQuadrant(IF a <= HALFPI THEN a ELSE PI - a)
    IN  Even(Abs(Reduce(x)))

\* math.tan, as the ratio <<sin, cos>>.  At the grid number nearest below
\* pi / 2 the cosine is one unit, not zero: math.tan(math.pi / 2) is finite
\* and positive (1.6e16), because math.pi / 2 lies below the pole.
Tan(x) == <<Sin(x), Cos(x)>>

\* The sign of a ratio.
RatioSign(t) == Sgn(t[1]) * Sgn(t[2])

\* v * 2^k brought into [2/3, 4/3] of Q: <<mantissa, k>> with v = mantissa * 2^k.
RECURSIVE Normalize(_, _)
Normalize(m, k) ==
    IF 3 * m < 2 * Q THEN Normalize(2 * m, k - 1)
    ELSE IF 3 * m > 4 * Q THEN Normalize(Div(m, 2), k + 1)
    ELSE <<m, k>>

\* 2 atanh(z) for |z| <= 1/5.
Atanh2(z) ==
    2 * MulQ(z, OddSeries(MulQ(z, z), Div(Q, 17), <<15, 13, 11, 9, 7, 5, 3, 1>>, 1))

\* ln(v / Q) for a grid number v > 0: ln(m) + k ln 2, ln(m) = 2 atanh((m-1)/(m+1)).
LnGrid(v) ==
    LET Ln(mk) == Atanh2(MulDiv(mk[1] - Q, Q, mk[1] + Q)) + mk[2] * LN2
    IN  Ln(Normalize(v, 0))

\* math.log of a ratio: defined on positive numbers only (the caller tests
\* LogDefined first; math.log raises ValueError elsewhere).
LogDefined(t) == RatioSign(t) > 0
Log(t) == LnGrid(Abs(t[1])) - LnGrid(Abs(t[2]))

\* e^r for 0 <= r < ln 2.
ExpSeries(r) == Taylor(r, Q, <<12, 11, 10, 9, 8, 7, 6, 5, 4, 3, 2, 1>>, 1)

RECURSIVE Halve(_, _)
Halve(d, k) == IF k = 0 \/ d = 0 THEN d ELSE Halve(Div(d, 2), k - 1)

\* math.exp, as a ratio: e^t = e^r * 2^k = <<e^r, 2^-k>>.
Exp(t) ==
    LET Ratio(n, d) == IF t >= 0 THEN <<n, d>> ELSE <<d, n>>
    IN  Ratio(ExpSeries(Abs(t) - (Abs(t) \div LN2) * LN2), Halve(Q, Abs(t) \div LN2))

\* atan on [-tan(pi/8), tan(pi/8)].
AtanSeries(z) ==
    MulQ(z, OddSeries(MulQ(z, z), Div(Q, 23),
                      <<21, 19, 17, 15, 13, 11, 9, 7, 5, 3, 1>>, -1))

\* atan on [0, 1]: beyond tan(pi/8), pi/4 + atan((z - 1) / (z + 1)).
AtanUnit(z) ==
    (IF z <= TANPI8 THEN 0 ELSE Div(HALFPI, 2))
        + AtanSeries(IF z <= TANPI8 THEN z ELSE MulDiv(z - Q, Q, z + Q))

\* math.atan of a non-negative ratio <<n, d>> (the result of Exp).
Atan(t) ==
    LET Fold(a) == IF t[1] <= t[2] THEN a ELSE HALFPI - a
    IN  Fold(AtanUnit(MulDiv(IF t[1] <= t[2] THEN t[1] ELSE t[2], Q,
                             IF t[1] <= t[2] THEN t[2] ELSE t[1])))

\* math.sqrt of the wide number hi * Q + lo (a sum of two squares), rounded to
\* the nearest integer.  Squares are kept as <<quotient, remainder>> by Q.
SquareWide(a) ==
    LET a1 == Abs(a) \div 10000
        a0 == Abs(a) % 10000
        m  == a1 * a0
        m0 == a0 * a0
        mid == 2 * (m % 10000) + (m0 \div 10000)
    IN  <<a1 * a1 + 2 * (m \div 10000) + (mid \div 10000),
          (mid % 10000) * 10000 + (m0 % 10000)>>

AddWide(u, v) == <<u[1] + v[1] + ((u[2] + v[2]) \div Q), (u[2] + v[2]) % Q>>
LeqWide(u, v) == u[1] < v[1] \/ (u[1] = v[1] /\ u[2] <= v[2])

\* The largest t with t * t <= n, found bit by bit from the top.
RECURSIVE SqrtBits(_, _, _)
SqrtBits(n, t, bit) ==
    IF bit = 0 THEN t
    ELSE IF LeqWide(SquareWide(t + bit), n) THEN SqrtBits(n, t + bit, bit \div 2)
    ELSE SqrtBits(n, t, bit \div 2)

Sqrt(n) ==
    \* n >= t^2 + t + 1, that is n > (t + 1/2)^2: the root rounds up.
    LET Nearest(t) ==
            IF LeqWide(AddWide(SquareWide(t), <<0, t + 1>>), n) THEN t + 1 ELSE t
    IN  Nearest(SqrtBits(n, 0, 2^22))

\* ------------------------------------------------- GoogleMapsConverter
\* self.EARTH_RADIUS, metres.
EARTH_RADIUS == 6378137
\* self.ORIGIN_SHIFT = 2 * math.pi * self.EARTH_RADIUS / 2.0, on the Mercator grid.
ORIGIN_SHIFT == MulDiv(2 * PI, EARTH_RADIUS * MS, 2 * Q)
\* 156543.03392, metres per pixel at the equator at zoom 0, on the resolution grid.
EQUATOR_RESOLUTION == 1565430339

\* What a call yields: a value (err = "none") or the exception it raises.
Value(v) == [err |-> "none", val |-> v]
Raise(e) == [err |-> e, val |-> <<>>]

\* _lat_lng_to_mercator(lat, lng): {'x': x, 'y': y} as <<x, y>>.  math.log
\* raises ValueError when the tangent is not positive.
_lat_lng_to_mercator(lat, lng) ==
    LET OfTan(t) ==
            IF ~LogDefined(t) THEN Raise("ValueError")
            ELSE Value(<<MulDiv(lng, ORIGIN_SHIFT, 180 * DEG),
                         MulDiv(MulDiv(Log(t), 180 * DEG, PI), ORIGIN_SHIFT, 180 * DEG)>>)
    IN  OfTan(Tan(MulDiv(90 * DEG + lat, PI, 360 * DEG)))

\* _mercator_to_lat_lng without the factor 2 on the arctangent.
_mercator_to_lat_lng_HalfAngle(mx, my) ==
    LET lng  == MulDiv(mx, 180 * DEG, ORIGIN_SHIFT)
        lat0 == MulDiv(my, 180 * DEG, ORIGIN_SHIFT)
        a    == Atan(Exp(MulDiv(lat0, PI, 180 * DEG)))
        lat1 == MulDiv(a - Div(PI, 2), 180 * DEG, PI)
    IN  Value(<<lat1, lng>>)

\* _mercator_to_lat_lng(x, y): {'lat': lat, 'lng': lng} as <<lat, lng>>.
_mercator_to_lat_lng(mx, my) ==
    LET lng  == MulDiv(mx, 180 * DEG, ORIGIN_SHIFT)
        lat0 == MulDiv(my, 180 * DEG, ORIGIN_SHIFT)
        a    == Atan(Exp(MulDiv(lat0, PI, 180 * DEG)))
        lat1 == MulDiv(2 * a - Div(PI, 2), 180 * DEG, PI)
    IN  Value(<<lat1, lng>>)

\* _calculate_meters_per_pixel dividing by 2 * zoom + 1 where the source
\* divides by 2 ** zoom.
_calculate_meters_per_pixel_Linear(lat, zoom) ==
    LET Over(num) ==
            IF Div(num, 2 * zoom + 1) = 0 THEN Sgn(num) ELSE Div(num, 2 * zoom + 1)
    IN  Over(MulQ(EQUATOR_RESOLUTION, Cos(MulDiv(lat, PI, 180 * DEG))))

\* _calculate_meters_per_pixel taking the sine of the latitude where the
\* source takes the cosine.
_calculate_meters_per_pixel_Sine(lat, zoom) ==
    LET Over(num) == IF Div(num, 2^zoom) = 0 THEN Sgn(num) ELSE Div(num, 2^zoom)
    IN  Over(MulQ(EQUATOR_RESOLUTION, Sin(MulDiv(lat, PI, 180 * DEG))))

\* _calculate_meters_per_pixel(lat, zoom).  A double does not underflow here:
\* the quotient of a non-zero numerator keeps its sign, and the smallest grid
\* unit stands for it (math.cos(math.pi / 2) is 6.1e-17, not 0).
_calculate_meters_per_pixel(lat, zoom) ==
    LET Over(num) == IF Div(num, 2^zoom) = 0 THEN Sgn(num) ELSE Div(num, 2^zoom)
    IN  Over(MulQ(EQUATOR_RESOLUTION, Cos(MulDiv(lat, PI, 180 * DEG))))

\* No converter: what the caller holds before a construction and after a
\* construction that raised.
NoConverter ==
    [alive |-> FALSE, center_lat |-> 0, center_lng |-> 0, zoom_level |-> 0,
     image_width |-> 0, image_height |-> 0, center_mercator |-> <<0, 0>>,
     meters_per_pixel |-> 0]

\* __init__ deriving the resolution from latitude and zoom whether or not a
\* custom_resolution is given.
GoogleMapsConverter_AlwaysDerived(center_lat, center_lng, zoom_level, image_width, image_height, custom_resolution) ==
    LET Fields(center_mercator) ==
            IF center_mercator.err # "none"
            THEN [err |-> center_mercator.err, obj |-> NoConverter]
            ELSE [err |-> "none",
                  obj |-> [alive |-> TRUE,
                           center_lat |-> center_lat,
                           center_lng |-> center_lng,
                           zoom_level |-> zoom_level,
                           image_width |-> image_width,
                           image_height |-> image_height,
                           center_mercator |-> center_mercator.val,
                           meters_per_pixel |->
                               _calculate_meters_per_pixel(center_lat, zoom_level)]]
    IN  Fields(_lat_lng_to_mercator(center_lat, center_lng))

\* __init__ handing the caller the object as far as it was built when
\* _lat_lng_to_mercator raises: the fields of lines 23-27 set, center_mercator
\* and meters_per_pixel not.
GoogleMapsConverter_PartialOnError(center_lat, center_lng, zoom_level, image_width, image_height, custom_resolution) ==
    LET Fields(center_mercator) ==
            IF center_mercator.err # "none"
            THEN [err |-> center_mercator.err,
                  obj |-> [alive |-> TRUE,
                           center_lat |-> center_lat,
                           center_lng |-> center_lng,
                           zoom_level |-> zoom_level,
                           image_width |-> image_width,
                           image_height |-> image_height,
                           center_mercator |-> <<0, 0>>,
                           meters_per_pixel |-> 0]]
            ELSE [err |-> "none",
                  obj |-> [alive |-> TRUE,
                           center_lat |-> center_lat,
                           center_lng |-> center_lng,
                           zoom_level |-> zoom_level,
                           image_width |-> image_width,
                           image_height |-> image_height,
                           center_mercator |-> center_mercator.val,
                           meters_per_pixel |->
                               IF custom_resolution # <<>> THEN custom_resolution[1]
                               ELSE _calculate_meters_per_pixel(center_lat, zoom_level)]]
    IN  Fields(_lat_lng_to_mercator(center_lat, center_lng))

\* GoogleMapsConverter.__init__: the object, or the exception that leaves the
\* caller without one.  custom_resolution is <<>> for None and <<r>> for r.
\* Nothing is validated: the only failure is the ValueError of
\* _lat_lng_to_mercator.
GoogleMapsConverter(center_lat, center_lng, zoom_level, image_width, image_height, custom_resolution) ==
    LET Fields(center_mercator) ==
            IF center_mercator.err # "none"
            THEN [err |-> center_mercator.err, obj |-> NoConverter]
            ELSE [err |-> "none",
                  obj |-> [alive |-> TRUE,
                           center_lat |-> center_lat,
                           center_lng |-> center_lng,
                           zoom_level |-> zoom_level,
                           image_width |-> image_width,
                           image_height |-> image_height,
                           center_mercator |-> center_mercator.val,
                           meters_per_pixel |->
                               IF custom_resolution # <<>> THEN custom_resolution[1]
                               ELSE _calculate_meters_per_pixel(center_lat, zoom_level)]]
    IN  Fields(_lat_lng_to_mercator(center_lat, center_lng))

\* The metre offsets measured from the image's corner: the subtraction of the
\* center pixel left out.
MeterOffset_FromCorner(self, pixel_x, pixel_y) ==
    <<MulDiv(pixel_x, self.meters_per_pixel, (PS * RS) \div MF),
      MulDiv(-pixel_y, self.meters_per_pixel, (PS * RS) \div MF)>>

\* The metre offsets with meter_y not sign-inverted: pixel y taken to grow
\* northward.
MeterOffset_YNotInverted(self, pixel_x, pixel_y) ==
    LET offset_x == pixel_x - Div(self.image_width * PS, 2)
        offset_y == pixel_y - Div(self.image_height * PS, 2)
    IN  <<MulDiv(offset_x, self.meters_per_pixel, (PS * RS) \div MF),
          MulDiv(offset_y, self.meters_per_pixel, (PS * RS) \div MF)>>

\* The metre offsets pixel_to_lat_lng adds to the center: <<meter_x, meter_y>>.
MeterOffset(self, pixel_x, pixel_y) ==
    LET offset_x == pixel_x - Div(self.image_width * PS, 2)
        offset_y == pixel_y - Div(self.image_height * PS, 2)
    IN  <<MulDiv(offset_x, self.meters_per_pixel, (PS * RS) \div MF),
          MulDiv(-offset_y, self.meters_per_pixel, (PS * RS) \div MF)>>

\* pixel_to_lat_lng(pixel_x, pixel_y): <<lat, lng>>.
pixel_to_lat_lng(self, pixel_x, pixel_y) ==
    LET Shifted(m) ==
            _mercator_to_lat_lng(self.center_mercator[1] + MulDiv(m[1], MS, MF),
                                 self.center_mercator[2] + MulDiv(m[2], MS, MF))
    IN  Shifted(MeterOffset(self, pixel_x, pixel_y))

\* lat_lng_to_pixel measuring the offset from the Mercator point of the center
\* as pixel_to_lat_lng returns it, not from the cached center_mercator.
lat_lng_to_pixel_CenterReprojected(self, lat, lng) ==
    LET Offset(mercator, center) ==
            IF mercator.err # "none" THEN Raise(mercator.err)
            ELSE IF center.err # "none" THEN Raise(center.err)
            ELSE IF self.meters_per_pixel = 0 THEN Raise("ZeroDivisionError")
            ELSE LET meter_offset_x == mercator.val[1] - center.val[1]
                     meter_offset_y == mercator.val[2] - center.val[2]
                     pixel_offset_x == MulDiv(meter_offset_x, (PS * RS) \div MS,
                                              self.meters_per_pixel)
                     pixel_offset_y == MulDiv(-meter_offset_y, (PS * RS) \div MS,
                                              self.meters_per_pixel)
                 IN  Value(<<Div(self.image_width * PS, 2) + pixel_offset_x,
                             Div(self.image_height * PS, 2) + pixel_offset_y>>)
        Recentered(c) == Offset(_lat_lng_to_mercator(lat, lng),
                                _lat_lng_to_mercator(c[1], c[2]))
    IN  Recentered(_mercator_to_lat_lng(self.center_mercator[1],
                                        self.center_mercator[2]).val)

\* lat_lng_to_pixel(lat, lng): <<x, y>>.  The division by meters_per_pixel
\* raises ZeroDivisionError when the resolution is 0.
lat_lng_to_pixel(self, lat, lng) ==
    LET Offset(mercator) ==
            IF mercator.err # "none" THEN Raise(mercator.err)
            ELSE IF self.meters_per_pixel = 0 THEN Raise("ZeroDivisionError")
            ELSE LET meter_offset_x == mercator.val[1] - self.center_mercator[1]
                     meter_offset_y == mercator.val[2] - self.center_mercator[2]
                     pixel_offset_x == MulDiv(meter_offset_x, (PS * RS) \div MS,
                                              self.meters_per_pixel)
                     pixel_offset_y == MulDiv(-meter_offset_y, (PS * RS) \div MS,
                                              self.meters_per_pixel)
                 IN  Value(<<Div(self.image_width * PS, 2) + pixel_offset_x,
                             Div(self.image_height * PS, 2) + pixel_offset_y>>)
    IN  Offset(_lat_lng_to_mercator(lat, lng))

\* get_resolution_info reporting the resolution of the latitude/zoom formula
\* instead of the stored one.
get_resolution_info_Derived(self) ==
    Value(<<_calculate_meters_per_pixel(self.center_lat, self.zoom_level),
            self.zoom_level, self.center_lat, self.center_lng,
            self.image_width, self.image_height>>)

\* get_resolution_info(): <<meters_per_pixel, zoom_level, lat, lng, width, height>>.
get_resolution_info(self) ==
    Value(<<self.meters_per_pixel, self.zoom_level, self.center_lat,
            self.center_lng, self.image_width, self.image_height>>)

\* calculate_distance_from_center adding the two legs instead of taking the
\* root of the sum of their squares.
calculate_distance_from_center_LegsAdded(self, pixel_x, pixel_y) ==
    LET Distances(horizontal_distance, vertical_distance) ==
            Value(<<horizontal_distance, vertical_distance,
                    Abs(horizontal_distance) + Abs(vertical_distance)>>)
    IN  Distances(MulDiv(pixel_x - Div(self.image_width * PS, 2),
                         self.meters_per_pixel, (PS * RS) \div MF),
                  MulDiv(pixel_y - Div(self.image_height * PS, 2),
                         self.meters_per_pixel, (PS * RS) \div MF))

\* calculate_distance_from_center measuring the offsets from the image's
\* corner: the subtraction of the center left out.
calculate_distance_from_center_FromCorner(self, pixel_x, pixel_y) ==
    LET Distances(horizontal_distance, vertical_distance) ==
            Value(<<horizontal_distance, vertical_distance,
                    Sqrt(AddWide(SquareWide(horizontal_distance),
                                 SquareWide(vertical_distance)))>>)
    IN  Distances(MulDiv(pixel_x, self.meters_per_pixel, (PS * RS) \div MF),
                  MulDiv(pixel_y, self.meters_per_pixel, (PS * RS) \div MF))

\* calculate_distance_from_center measuring both offsets from image_width / 2.
calculate_distance_from_center_WidthTwice(self, pixel_x, pixel_y) ==
    LET Distances(horizontal_distance, vertical_distance) ==
            Value(<<horizontal_distance, vertical_distance,
                    Sqrt(AddWide(SquareWide(horizontal_distance),
                                 SquareWide(vertical_distance)))>>)
    IN  Distances(MulDiv(pixel_x - Div(self.image_width * PS, 2),
                         self.meters_per_pixel, (PS * RS) \div MF),
                  MulDiv(pixel_y - Div(self.image_width * PS, 2),
                         self.meters_per_pixel, (PS * RS) \div MF))

\* calculate_distance_from_center with the vertical distance counted upward,
\* as the Mercator y offset is.
calculate_distance_from_center_Upward(self, pixel_x, pixel_y) ==
    LET Distances(horizontal_distance, vertical_distance) ==
            Value(<<horizontal_distance, vertical_distance,
                    Sqrt(AddWide(SquareWide(horizontal_distance),
                                 SquareWide(vertical_distance)))>>)
    IN  Distances(MulDiv(pixel_x - Div(self.image_width * PS, 2),
                         self.meters_per_pixel, (PS * RS) \div MF),
                  MulDiv(Div(self.image_height * PS, 2) - pixel_y,
                         self.meters_per_pixel, (PS * RS) \div MF))

\* calculate_distance_from_center with the total the signed sum of the two
\* distances.
calculate_distance_from_center_SignedSum(self, pixel_x, pixel_y) ==
    LET Distances(horizontal_distance, vertical_distance) ==
            Value(<<horizontal_distance, vertical_distance,
                    horizontal_distance + vertical_distance>>)
    IN  Distances(MulDiv(pixel_x - Div(self.image_width * PS, 2),
                         self.meters_per_pixel, (PS * RS) \div MF),
                  MulDiv(pixel_y - Div(self.image_height * PS, 2),
                         self.meters_per_pixel, (PS * RS) \div MF))

\* calculate_distance_from_center(pixel_x, pixel_y): <<horizontal, vertical, total>>.
calculate_distance_from_center(self, pixel_x, pixel_y) ==
    LET Distances(horizontal_distance, vertical_distance) ==
            Value(<<horizontal_distance, vertical_distance,
                    Sqrt(AddWide(SquareWide(horizontal_distance),
                                 SquareWide(vertical_distance)))>>)
    IN  Distances(MulDiv(pixel_x - Div(self.image_width * PS, 2),
                         self.meters_per_pixel, (PS * RS) \div MF),
                  MulDiv(pixel_y - Div(self.image_height * PS, 2),
                         self.meters_per_pixel, (PS * RS) \div MF))

\* convert_pixel_to_coordinates: a converter built with the resolution given,
\* used once; (lat, lng) or the exception.
convert_pixel_to_coordinates(pixel_x, pixel_y, center_lat, center_lng, zoom_level, image_width, image_height, resolution) ==
    LET Use(converter) ==
            IF converter.err # "none" THEN Raise(converter.err)
            ELSE pixel_to_lat_lng(converter.obj, pixel_x, pixel_y)
    IN  Use(GoogleMapsConverter(center_lat, center_lng, zoom_level,
                                image_width, image_height, <<resolution>>))

\* convert_coordinates_to_pixel: (pixel_x, pixel_y) or the exception.
convert_coordinates_to_pixel(lat, lng, center_lat, center_lng, zoom_level, image_width, image_height, resolution) ==
    LET Use(converter) ==
            IF converter.err # "none" THEN Raise(converter.err)
            ELSE lat_lng_to_pixel(converter.obj, lat, lng)
    IN  Use(GoogleMapsConverter(center_lat, center_lng, zoom_level,
                                image_width, image_height, <<resolution>>))

\* ------------------------------------------------------------ the caller
\* The inputs a caller draws from.  Latitudes and longitudes on the degree
\* grid: the poles, the equator and the center of main(), and a longitude east
\* of the antimeridian, 200 degrees.
MaxZoom == 19
Lats == {-90 * DEG, 0, 41552013, 90 * DEG}
Lngs == {-70601921, 200 * DEG}
Zooms == (MaxZoom - 1)..MaxZoom
ImageSizes == {<<640, 640>>, <<641, 480>>, <<0, 640>>, <<640, -480>>}
\* custom_resolution: None, 0, 0.298 (main), -0.298.
Resolutions == {<<>>, <<0>>, <<2980>>, <<-2980>>}
PixelPoints == {<<0, 0>>, <<514 * PS, 452 * PS>>}
\* Geographic points relative to a frame's center: the center itself and the
\* point main() converts (41.551750, -70.601402 against the center of main).
GeoOffsets == {<<0, 0>>, <<-263, 519>>}

\* The pixel and geographic points a caller asks a converter about: the
\* fixed pixels and the image center; the points near the frame's center and
\* the two poles on its meridian.
PixelInputs(self) ==
    PixelPoints \cup {<<Div(self.image_width * PS, 2), Div(self.image_height * PS, 2)>>}
GeoInputs(lat, lng) ==
    {<<lat + d[1], lng + d[2]>> : d \in GeoOffsets}
        \cup {<<-90 * DEG, lng>>, <<90 * DEG, lng>>}

\* The callers that may be inside a method of the converter at the same time.
MaxCallers == 2
Callers == 1..MaxCallers

VARIABLES
    converter,  \* the GoogleMapsConverter the caller holds, or NoConverter
    args,       \* the arguments converter was constructed with
    ret,        \* the last call: its name, arguments and what it yielded
    callers,    \* per concurrent caller: the call it is in, its position and locals
    detect,     \* a run of server/boat_detection.py: position, locals, output
    tile        \* a run of server/visualize_tile.py: position, locals, files, output
vars == <<converter, args, ret, callers, detect, tile>>

\* No run of server/boat_detection.py.
NoDetect == [pc |-> "none"]
\* No run of server/visualize_tile.py.
NoTile == [pc |-> "none"]

\* A caller outside every method.
IdleCaller ==
    [pc |-> "idle", op |-> "none", arg |-> <<>>, local |-> <<>>,
     err |-> "none", val |-> <<>>]

NoArgs ==
    [center_lat |-> 0, center_lng |-> 0, zoom_level |-> 0, image_width |-> 0,
     image_height |-> 0, custom_resolution |-> <<>>]

\* A call record.  src is the argument of the call whose result this call was
\* given as its argument (a round trip), <<>> otherwise.
Call(op, arg, src, out) ==
    [op |-> op, arg |-> arg, src |-> src, err |-> out.err, val |-> out.val]

NoCall == Call("none", <<>>, <<>>, Value(<<>>))

Init ==
    /\ converter = NoConverter
    /\ args = NoArgs
    /\ ret = NoCall
    /\ callers = [c \in Callers |-> IdleCaller]
    /\ detect = NoDetect
    /\ tile = NoTile

\* converter = GoogleMapsConverter(...): main, lines 159-162.
Construct(lat, lng, zoom, size, res) ==
    /\ ret = NoCall
    /\ LET Hold(made) ==
               /\ converter' = made.obj
               /\ ret' = Call("__init__", <<lat, lng, zoom, size[1], size[2], res>>,
                              <<>>, [err |-> made.err, val |-> <<>>])
       IN  Hold(GoogleMapsConverter(lat, lng, zoom, size[1], size[2], res))
    /\ args' = [center_lat |-> lat, center_lng |-> lng, zoom_level |-> zoom,
                image_width |-> size[1], image_height |-> size[2],
                custom_resolution |-> res]
    /\ UNCHANGED <<callers, detect, tile>>

\* converter.pixel_to_lat_lng(x, y) keeping the point it returns as the
\* frame's center.
PixelToLatLng_Recentering(p) ==
    /\ converter.alive
    /\ LET Keep(out) ==
               /\ ret' = Call("pixel_to_lat_lng", p, <<>>, out)
               /\ converter' = [converter EXCEPT !.center_lat = out.val[1],
                                                  !.center_lng = out.val[2]]
       IN  Keep(pixel_to_lat_lng(converter, p[1], p[2]))
    /\ UNCHANGED <<args, callers, detect, tile>>

\* converter.pixel_to_lat_lng(x, y)
PixelToLatLng(p) ==
    /\ converter.alive
    /\ ret' = Call("pixel_to_lat_lng", p, <<>>, pixel_to_lat_lng(converter, p[1], p[2]))
    /\ UNCHANGED <<converter, args, callers, detect, tile>>

\* converter.lat_lng_to_pixel(lat, lng)
LatLngToPixel(g) ==
    /\ converter.alive
    /\ ret' = Call("lat_lng_to_pixel", g, <<>>, lat_lng_to_pixel(converter, g[1], g[2]))
    /\ UNCHANGED <<converter, args, callers, detect, tile>>

\* coords = converter.pixel_to_lat_lng(x, y);
\* converter.lat_lng_to_pixel(coords['lat'], coords['lng']): main, lines 170-174.
LatLngToPixelBack ==
    /\ converter.alive
    /\ ret.op = "pixel_to_lat_lng" /\ ret.err = "none" /\ ret.src = <<>>
    /\ ret' = Call("lat_lng_to_pixel", ret.val, ret.arg,
                   lat_lng_to_pixel(converter, ret.val[1], ret.val[2]))
    /\ UNCHANGED <<converter, args, callers, detect, tile>>

\* The same round trip from the geographic side.
PixelToLatLngBack ==
    /\ converter.alive
    /\ ret.op = "lat_lng_to_pixel" /\ ret.err = "none" /\ ret.src = <<>>
    /\ ret' = Call("pixel_to_lat_lng", ret.val, ret.arg,
                   pixel_to_lat_lng(converter, ret.val[1], ret.val[2]))
    /\ UNCHANGED <<converter, args, callers, detect, tile>>

\* converter.get_resolution_info()
GetResolutionInfo ==
    /\ converter.alive
    /\ ret' = Call("get_resolution_info", <<>>, <<>>, get_resolution_info(converter))
    /\ UNCHANGED <<converter, args, callers, detect, tile>>

\* converter.calculate_distance_from_center(x, y)
CalculateDistanceFromCenter(p) ==
    /\ converter.alive
    /\ ret' = Call("calculate_distance_from_center", p, <<>>,
                   calculate_distance_from_center(converter, p[1], p[2]))
    /\ UNCHANGED <<converter, args, callers, detect, tile>>

\* convert_pixel_to_coordinates(x, y, center_lat, center_lng, zoom, w, h, resolution)
ConvertPixelToCoordinates(p, lat, lng, zoom, size, r) ==
    /\ ret = NoCall
    /\ ret' = Call("convert_pixel_to_coordinates",
                   <<p[1], p[2], lat, lng, zoom, size[1], size[2], r>>, <<>>,
                   convert_pixel_to_coordinates(p[1], p[2], lat, lng, zoom,
                                                size[1], size[2], r))
    /\ UNCHANGED <<converter, args, callers, detect, tile>>

\* convert_coordinates_to_pixel(lat, lng, center_lat, center_lng, zoom, w, h, resolution)
ConvertCoordinatesToPixel(g, lat, lng, zoom, size, r) ==
    /\ ret = NoCall
    /\ ret' = Call("convert_coordinates_to_pixel",
                   <<g[1], g[2], lat, lng, zoom, size[1], size[2], r>>, <<>>,
                   convert_coordinates_to_pixel(g[1], g[2], lat, lng, zoom,
                                                size[1], size[2], r))
    /\ UNCHANGED <<converter, args, callers, detect, tile>>

\* The caller is done with the image: the converter and the result are dropped.
Discard ==
    /\ ret # NoCall
    /\ converter' = NoConverter
    /\ args' = NoArgs
    /\ ret' = NoCall
    /\ UNCHANGED <<callers, detect, tile>>

Next ==
    \/ \E lat \in Lats, lng \in Lngs, zoom \in Zooms, size \in ImageSizes,
          res \in Resolutions : Construct(lat, lng, zoom, size, res)
    \/ \E p \in PixelInputs(converter) : PixelToLatLng(p)
    \/ \E g \in GeoInputs(converter.center_lat, converter.center_lng) : LatLngToPixel(g)
    \/ LatLngToPixelBack
    \/ PixelToLatLngBack
    \/ GetResolutionInfo
    \/ \E p \in PixelInputs(converter) : CalculateDistanceFromCenter(p)
    \/ \E p \in PixelPoints, lat \in Lats, lng \in Lngs, zoom \in Zooms,
          res \in Resolutions \ {<<>>} :
            ConvertPixelToCoordinates(p, lat, lng, zoom, <<640, 640>>, res[1])
    \/ \E lat \in Lats, lng \in Lngs, zoom \in Zooms, res \in Resolutions \ {<<>>} :
          \E g \in GeoInputs(lat, lng) :
            ConvertCoordinatesToPixel(g, lat, lng, zoom, <<640, 640>>, res[1])
    \/ Discard

Spec == Init /\ [][Next]_vars

\* ------------------------------------------------- the methods alone
\* The projection and the resolution formula called on their own, on the
\* converter of main: the inputs they are given.
MaxMethodZoom == 21
MethodZooms == 0..MaxMethodZoom
MethodLats == {-90 * DEG, -85 * DEG, -60 * DEG, 0, 41552013, 60 * DEG, 85 * DEG, 90 * DEG}
MethodLngs == {-180 * DEG, -70601921, 0, 180 * DEG}
\* Web Mercator points: the corners and the center of the map, and the center
\* of main.
MercatorXs == {-ORIGIN_SHIFT, -78593699, 0, ORIGIN_SHIFT}
MercatorYs == {-ORIGIN_SHIFT, 0, 50941076, ORIGIN_SHIFT}

MainArgs ==
    [center_lat |-> 41552013, center_lng |-> -70601921, zoom_level |-> 19,
     image_width |-> 640, image_height |-> 640, custom_resolution |-> <<2980>>]

\* converter = GoogleMapsConverter(...) as main constructs it.
MethodInit ==
    /\ converter = GoogleMapsConverter(MainArgs.center_lat, MainArgs.center_lng,
                                       MainArgs.zoom_level, MainArgs.image_width,
                                       MainArgs.image_height,
                                       MainArgs.custom_resolution).obj
    /\ args = MainArgs
    /\ ret = NoCall
    /\ callers = [c \in Callers |-> IdleCaller]
    /\ detect = NoDetect
    /\ tile = NoTile

\* converter._calculate_meters_per_pixel(lat, zoom)
CalculateMetersPerPixel(lat, zoom) ==
    /\ ret' = Call("_calculate_meters_per_pixel", <<lat, zoom>>, <<>>,
                   Value(<<_calculate_meters_per_pixel(lat, zoom)>>))
    /\ UNCHANGED <<converter, args, callers, detect, tile>>

\* converter._lat_lng_to_mercator(lat, lng)
LatLngToMercator(g) ==
    /\ ret' = Call("_lat_lng_to_mercator", g, <<>>, _lat_lng_to_mercator(g[1], g[2]))
    /\ UNCHANGED <<converter, args, callers, detect, tile>>

\* converter._mercator_to_lat_lng(x, y)
MercatorToLatLng(m) ==
    /\ ret' = Call("_mercator_to_lat_lng", m, <<>>, _mercator_to_lat_lng(m[1], m[2]))
    /\ UNCHANGED <<converter, args, callers, detect, tile>>

\* m = converter._lat_lng_to_mercator(lat, lng);
\* converter._mercator_to_lat_lng(m['x'], m['y'])
MercatorToLatLngBack ==
    /\ ret.op = "_lat_lng_to_mercator" /\ ret.err = "none" /\ ret.src = <<>>
    /\ ret' = Call("_mercator_to_lat_lng", ret.val, ret.arg,
                   _mercator_to_lat_lng(ret.val[1], ret.val[2]))
    /\ UNCHANGED <<converter, args, callers, detect, tile>>

\* g = converter._mercator_to_lat_lng(x, y);
\* converter._lat_lng_to_mercator(g['lat'], g['lng'])
LatLngToMercatorBack ==
    /\ ret.op = "_mercator_to_lat_lng" /\ ret.err = "none" /\ ret.src = <<>>
    /\ ret' = Call("_lat_lng_to_mercator", ret.val, ret.arg,
                   _lat_lng_to_mercator(ret.val[1], ret.val[2]))
    /\ UNCHANGED <<converter, args, callers, detect, tile>>

MethodNext ==
    \/ \E lat \in MethodLats, zoom \in MethodZooms : CalculateMetersPerPixel(lat, zoom)
    \/ \E lat \in MethodLats, lng \in MethodLngs : LatLngToMercator(<<lat, lng>>)
    \/ \E x \in MercatorXs, y \in MercatorYs : MercatorToLatLng(<<x, y>>)
    \/ MercatorToLatLngBack
    \/ LatLngToMercatorBack

MethodSpec == MethodInit /\ [][MethodNext]_vars

\* ------------------------------------------------------------ concurrent reads
\* Callers inside the read methods of one converter at the same time, without
\* synchronization.  A step is a group of statements that reads fields of the
\* converter into the caller's locals; callers' steps interleave in any order.
ConcurrentGeo == {<<41552013 - 263, -70601921 + 519>>, <<-90 * DEG, -70601921>>}
ConcurrentCalls ==
    {<<"pixel_to_lat_lng", p>> : p \in PixelPoints}
        \cup {<<"lat_lng_to_pixel", g>> : g \in ConcurrentGeo}
        \cup {<<"get_resolution_info", <<>>>>}
        \cup {<<"calculate_distance_from_center", p>> : p \in PixelPoints}

\* Caller c inside op at position pc.
Inside(c, op, pc) == callers[c].op = op /\ callers[c].pc = pc
\* Caller c moves to position pc with the locals given.
Step(c, pc, local) == [callers EXCEPT ![c].pc = pc, ![c].local = local]
\* Caller c's call ends with what it returns or raises.
Finish(c, out) ==
    [callers EXCEPT ![c].pc = "done", ![c].local = <<>>,
                    ![c].err = out.err, ![c].val = out.val]

ConcurrentInit ==
    /\ converter = GoogleMapsConverter(MainArgs.center_lat, MainArgs.center_lng,
                                       MainArgs.zoom_level, MainArgs.image_width,
                                       MainArgs.image_height,
                                       MainArgs.custom_resolution).obj
    /\ args = MainArgs
    /\ ret = NoCall
    /\ callers = [c \in Callers |-> IdleCaller]
    /\ detect = NoDetect
    /\ tile = NoTile

\* Caller c calls a read method.
Invoke(c, call) ==
    /\ callers[c].pc = "idle"
    /\ callers' = [callers EXCEPT ![c] = [IdleCaller EXCEPT !.pc = "called",
                                                             !.op = call[1],
                                                             !.arg = call[2]]]
    /\ UNCHANGED <<converter, args, ret, detect, tile>>

\* pixel_to_lat_lng, lines 73-74: offset_x, offset_y.
PixelOffsets(c) ==
    /\ Inside(c, "pixel_to_lat_lng", "called")
    /\ callers' = Step(c, "offsets",
                       <<callers[c].arg[1] - Div(converter.image_width * PS, 2),
                         callers[c].arg[2] - Div(converter.image_height * PS, 2)>>)
    /\ UNCHANGED <<converter, args, ret, detect, tile>>

\* pixel_to_lat_lng, lines 77-78: meter_x, meter_y.
PixelMeters(c) ==
    /\ Inside(c, "pixel_to_lat_lng", "offsets")
    /\ callers' = Step(c, "meters",
                       <<MulDiv(callers[c].local[1], converter.meters_per_pixel,
                                (PS * RS) \div MF),
                         MulDiv(-callers[c].local[2], converter.meters_per_pixel,
                                (PS * RS) \div MF)>>)
    /\ UNCHANGED <<converter, args, ret, detect, tile>>

\* pixel_to_lat_lng, lines 81-82, keeping the new Mercator point in
\* self.center_mercator instead of the locals new_mercator_x, new_mercator_y.
PixelShift_InPlace(c) ==
    /\ Inside(c, "pixel_to_lat_lng", "meters")
    /\ LET Keep(shifted) ==
               /\ callers' = Step(c, "shifted", shifted)
               /\ converter' = [converter EXCEPT !.center_mercator = shifted]
       IN  Keep(<<converter.center_mercator[1] + MulDiv(callers[c].local[1], MS, MF),
                  converter.center_mercator[2] + MulDiv(callers[c].local[2], MS, MF)>>)
    /\ UNCHANGED <<args, ret, detect, tile>>

\* pixel_to_lat_lng, lines 81-82: new_mercator_x, new_mercator_y.
PixelShift(c) ==
    /\ Inside(c, "pixel_to_lat_lng", "meters")
    /\ callers' = Step(c, "shifted",
                       <<converter.center_mercator[1] + MulDiv(callers[c].local[1], MS, MF),
                         converter.center_mercator[2] + MulDiv(callers[c].local[2], MS, MF)>>)
    /\ UNCHANGED <<converter, args, ret, detect, tile>>

\* pixel_to_lat_lng, line 85: return self._mercator_to_lat_lng(...).
PixelReturn(c) ==
    /\ Inside(c, "pixel_to_lat_lng", "shifted")
    /\ callers' = Finish(c, _mercator_to_lat_lng(callers[c].local[1], callers[c].local[2]))
    /\ UNCHANGED <<converter, args, ret, detect, tile>>

\* lat_lng_to_pixel, line 99: mercator, or the ValueError of math.log.
GeoProject(c) ==
    /\ Inside(c, "lat_lng_to_pixel", "called")
    /\ LET Projected(mercator) ==
               IF mercator.err # "none" THEN Finish(c, Raise(mercator.err))
               ELSE Step(c, "projected", mercator.val)
       IN  callers' = Projected(_lat_lng_to_mercator(callers[c].arg[1], callers[c].arg[2]))
    /\ UNCHANGED <<converter, args, ret, detect, tile>>

\* lat_lng_to_pixel, lines 102-103: meter_offset_x, meter_offset_y.
GeoMeterOffsets(c) ==
    /\ Inside(c, "lat_lng_to_pixel", "projected")
    /\ callers' = Step(c, "meter_offsets",
                       <<callers[c].local[1] - converter.center_mercator[1],
                         callers[c].local[2] - converter.center_mercator[2]>>)
    /\ UNCHANGED <<converter, args, ret, detect, tile>>

\* lat_lng_to_pixel, lines 106-107: pixel_offset_x, pixel_offset_y, or
\* ZeroDivisionError.
GeoPixelOffsets(c) ==
    /\ Inside(c, "lat_lng_to_pixel", "meter_offsets")
    /\ callers' =
           IF converter.meters_per_pixel = 0 THEN Finish(c, Raise("ZeroDivisionError"))
           ELSE Step(c, "pixel_offsets",
                     <<MulDiv(callers[c].local[1], (PS * RS) \div MS,
                              converter.meters_per_pixel),
                       MulDiv(-callers[c].local[2], (PS * RS) \div MS,
                              converter.meters_per_pixel)>>)
    /\ UNCHANGED <<converter, args, ret, detect, tile>>

\* lat_lng_to_pixel, lines 110-113: pixel_x, pixel_y returned.
GeoReturn(c) ==
    /\ Inside(c, "lat_lng_to_pixel", "pixel_offsets")
    /\ callers' = Finish(c, Value(<<Div(converter.image_width * PS, 2) + callers[c].local[1],
                                    Div(converter.image_height * PS, 2) + callers[c].local[2]>>))
    /\ UNCHANGED <<converter, args, ret, detect, tile>>

\* get_resolution_info, lines 117-122: the dictionary of the fields.
ResolutionInfo(c) ==
    /\ Inside(c, "get_resolution_info", "called")
    /\ callers' = Finish(c, Value(<<converter.meters_per_pixel, converter.zoom_level,
                                    converter.center_lat, converter.center_lng,
                                    converter.image_width, converter.image_height>>))
    /\ UNCHANGED <<converter, args, ret, detect, tile>>

\* calculate_distance_from_center, lines 135-136: horizontal_distance,
\* vertical_distance.
DistanceLegs(c) ==
    /\ Inside(c, "calculate_distance_from_center", "called")
    /\ callers' = Step(c, "legs",
                       <<MulDiv(callers[c].arg[1] - Div(converter.image_width * PS, 2),
                                converter.meters_per_pixel, (PS * RS) \div MF),
                         MulDiv(callers[c].arg[2] - Div(converter.image_height * PS, 2),
                                converter.meters_per_pixel, (PS * RS) \div MF)>>)
    /\ UNCHANGED <<converter, args, ret, detect, tile>>

\* calculate_distance_from_center, lines 137-143: total_distance and the
\* dictionary returned.
DistanceReturn(c) ==
    /\ Inside(c, "calculate_distance_from_center", "legs")
    /\ callers' = Finish(c, Value(<<callers[c].local[1], callers[c].local[2],
                                    Sqrt(AddWide(SquareWide(callers[c].local[1]),
                                                 SquareWide(callers[c].local[2])))>>))
    /\ UNCHANGED <<converter, args, ret, detect, tile>>

\* Caller c takes what its call returned or raised and is free to call again.
Receive(c) ==
    /\ callers[c].pc = "done"
    /\ callers' = [callers EXCEPT ![c] = IdleCaller]
    /\ UNCHANGED <<converter, args, ret, detect, tile>>

ConcurrentNext ==
    \/ \E c \in Callers, call \in ConcurrentCalls : Invoke(c, call)
    \/ \E c \in Callers : PixelOffsets(c)
    \/ \E c \in Callers : PixelMeters(c)
    \/ \E c \in Callers : PixelShift(c)
    \/ \E c \in Callers : PixelReturn(c)
    \/ \E c \in Callers : GeoProject(c)
    \/ \E c \in Callers : GeoMeterOffsets(c)
    \/ \E c \in Callers : GeoPixelOffsets(c)
    \/ \E c \in Callers : GeoReturn(c)
    \/ \E c \in Callers : ResolutionInfo(c)
    \/ \E c \in Callers : DistanceLegs(c)
    \/ \E c \in Callers : DistanceReturn(c)
    \/ \E c \in Callers : Receive(c)

ConcurrentSpec == ConcurrentInit /\ [][ConcurrentNext]_vars

\* ------------------------------------------------------------ boat_detection.py
\* A run of server/boat_detection.py: main() and detect_and_measure_boats().
\* Text is a sequence of characters, so that str(e).lower() and the `in` tests
\* of line 35 are computed on it.
UpperCase ==
    <<"A", "B", "C", "D", "E", "F", "G", "H", "I", "J", "K", "L", "M",
      "N", "O", "P", "Q", "R", "S", "T", "U", "V", "W", "X", "Y", "Z">>
LowerCase ==
    <<"a", "b", "c", "d", "e", "f", "g", "h", "i", "j", "k", "l", "m",
      "n", "o", "p", "q", "r", "s", "t", "u", "v", "w", "x", "y", "z">>
\* str.lower()
lower(text) ==
    [i \in 1..Len(text) |->
        IF \E k \in 1..Len(UpperCase) : UpperCase[k] = text[i]
        THEN LowerCase[CHOOSE k \in 1..Len(UpperCase) : UpperCase[k] = text[i]]
        ELSE text[i]]
\* pattern in text
Contains(text, pattern) ==
    \E i \in 1..(Len(text) - Len(pattern) + 1) :
        SubSeq(text, i, i + Len(pattern) - 1) = pattern

\* The messages of the exceptions a run may meet.
MsgRateLimit == <<"R", "a", "t", "e", " ", "L", "i", "m", "i", "t">>
MsgQuota == <<"Q", "U", "O", "T", "A">>
Msg429 == <<"H", "T", "T", "P", " ", "4", "2", "9">>
MsgTimeout == <<"t", "i", "m", "e", "o", "u", "t">>
MsgRateLimited == <<"r", "a", "t", "e", "-", "l", "i", "m", "i", "t", "e", "d">>
MsgNoImage == <<"n", "o", " ", "i", "m", "a", "g", "e">>
MsgNotSaved == <<"n", "o", "t", " ", "s", "a", "v", "e", "d">>
MsgNotSerializable == <<"n", "o", "t", " ", "J", "S", "O", "N">>
MsgUsage == <<"U", "s", "a", "g", "e">>
DetectorMessages == {MsgRateLimit, MsgQuota, Msg429, MsgTimeout, MsgRateLimited}

\* Lines 34-35: "rate limit" in error_msg or "quota" in error_msg or "429" in
\* error_msg, error_msg = str(e).lower().
IsRateLimitError(e) ==
    LET In(error_msg) ==
            \/ Contains(error_msg, <<"r", "a", "t", "e", " ", "l", "i", "m", "i", "t">>)
            \/ Contains(error_msg, <<"q", "u", "o", "t", "a">>)
            \/ Contains(error_msg, <<"4", "2", "9">>)
    IN  In(lower(e))

max_retries == 3
InitialRetryDelay == 2
\* len(sys.argv) of the runs considered.
ArgCounts == {2, 3}
\* How many boats a successful detection may return.
MaxBoats == 1

\* The run as main() is entered with argc arguments.
StartDetect(argc) ==
    [pc |-> "main", argc |-> argc, attempt |-> 0, retry_delay |-> InitialRetryDelay,
     calls |-> 0, slept |-> <<>>, failures |-> <<>>, detected |-> FALSE,
     boats |-> 0, caught |-> <<>>, completed |-> FALSE,
     status |-> "none", error |-> <<>>, exit_code |-> -1]

DetectInit ==
    /\ converter = NoConverter
    /\ args = NoArgs
    /\ ret = NoCall
    /\ callers = [c \in Callers |-> IdleCaller]
    /\ detect \in {StartDetect(argc) : argc \in ArgCounts}
    /\ tile = NoTile

\* except Exception as e (lines 91-93): the message printed, ([], None) returned.
Caught(e) == [detect EXCEPT !.pc = "returned", !.caught = e, !.boats = 0]

\* main, lines 107-115: the usage error, printed as JSON, exit code 1.
CheckArguments ==
    /\ detect.pc = "main"
    /\ detect' = IF detect.argc # 3
                 THEN [detect EXCEPT !.pc = "exited", !.status = "error",
                                     !.error = MsgUsage, !.exit_code = 1]
                 ELSE [detect EXCEPT !.pc = "load"]
    /\ UNCHANGED <<converter, args, ret, callers, tile>>

\* detect_and_measure_boats, lines 21-28: load_image, which may raise.
LoadImage(loaded) ==
    /\ detect.pc = "load"
    /\ detect' = IF loaded THEN [detect EXCEPT !.pc = "attempt"] ELSE Caught(MsgNoImage)
    /\ UNCHANGED <<converter, args, ret, callers, tile>>

\* Lines 29-32: one call of owlv2_object_detection that returns boats.
DetectBoats(boats) ==
    /\ detect.pc = "attempt"
    /\ detect.attempt < max_retries
    /\ detect' = [detect EXCEPT !.pc = "measure", !.calls = @ + 1,
                                !.detected = TRUE, !.boats = boats]
    /\ UNCHANGED <<converter, args, ret, callers, tile>>

\* Lines 29-46: one call of owlv2_object_detection that raises e.
DetectFails(e) ==
    /\ detect.pc = "attempt"
    /\ detect.attempt < max_retries
    /\ LET Called(d) ==
               IF IsRateLimitError(e) /\ detect.attempt < max_retries - 1
               THEN [d EXCEPT !.pc = "sleep"]
               ELSE [d EXCEPT !.pc = "returned", !.caught = e, !.boats = 0]
       IN  detect' = Called([detect EXCEPT !.calls = @ + 1,
                                           !.failures = Append(@, e)])
    /\ UNCHANGED <<converter, args, ret, callers, tile>>

\* Lines 38-40 with the delay left as it is.
Sleep_FixedDelay ==
    /\ detect.pc = "sleep"
    /\ detect' = [detect EXCEPT !.pc = "attempt",
                                !.slept = Append(@, detect.retry_delay),
                                !.attempt = @ + 1]
    /\ UNCHANGED <<converter, args, ret, callers, tile>>

\* Lines 38-40: time.sleep(retry_delay); retry_delay *= 2; continue.
Sleep ==
    /\ detect.pc = "sleep"
    /\ detect' = [detect EXCEPT !.pc = "attempt",
                                !.slept = Append(@, detect.retry_delay),
                                !.retry_delay = @ * 2,
                                !.attempt = @ + 1]
    /\ UNCHANGED <<converter, args, ret, callers, tile>>

\* Lines 49-89: the lengths, the overlay and save_image, which may raise.
Annotate(saved) ==
    /\ detect.pc = "measure"
    /\ detect' = IF saved THEN [detect EXCEPT !.pc = "returned", !.completed = TRUE]
                 ELSE Caught(MsgNotSaved)
    /\ UNCHANGED <<converter, args, ret, callers, tile>>

\* main, lines 125-146: the result of detect_and_measure_boats printed with
\* status 'success'; json.dumps raising (on what the detector put in a
\* detection) is printed with status 'error' and exit code 1.
PrintResult(serializable) ==
    /\ detect.pc = "returned"
    /\ serializable \/ (detect.completed /\ detect.boats > 0)
    /\ detect' = IF serializable
                 THEN [detect EXCEPT !.pc = "exited", !.status = "success",
                                     !.exit_code = 0]
                 ELSE [detect EXCEPT !.pc = "exited", !.status = "error",
                                     !.error = MsgNotSerializable, !.exit_code = 1]
    /\ UNCHANGED <<converter, args, ret, callers, tile>>

DetectNext ==
    \/ CheckArguments
    \/ \E loaded \in BOOLEAN : LoadImage(loaded)
    \/ \E boats \in 0..MaxBoats : DetectBoats(boats)
    \/ \E e \in DetectorMessages : DetectFails(e)
    \/ Sleep
    \/ \E saved \in BOOLEAN : Annotate(saved)
    \/ \E serializable \in BOOLEAN : PrintResult(serializable)

DetectSpec == DetectInit /\ [][DetectNext]_vars

\* ------------------------------------------------------------ visualize_tile.py
\* A run of visualize_tile_detections(data_file, output_dir).  The numbers of a
\* detection are JSON numbers, kept in halves (TS units per pixel) so that int()
\* has something to truncate; image and text sizes are whole pixels.
TS == 2
max(a, b) == IF a >= b THEN a ELSE b
min(a, b) == IF a <= b THEN a ELSE b
\* The quotient n / d truncated toward zero, as int() truncates a float.
Truncated(n, d) == Sgn(n) * (Abs(n) \div d)
\* int(v) of a number in halves.
int(v) == Truncated(v, TS)

\* Lines 106-132: x1, y1, x2, y2 before clamping.  bounding_box is <<>> when
\* absent (or empty), <<x, y, width, height>> when a dictionary.
BoxCorners(detection) ==
    IF detection.bounding_box # <<>>
    THEN LET x == detection.bounding_box[1]
             y == detection.bounding_box[2]
             width == detection.bounding_box[3]
             height == detection.bounding_box[4]
         IN  <<int(x), int(y), int(x + width), int(y + height)>>
    ELSE LET center_x == detection.center_x
             center_y == detection.center_y
             width == detection.width * 10
             length == detection.length * 10
         IN  <<Truncated(2 * center_x - width, 2 * TS),
               Truncated(2 * center_y - length, 2 * TS),
               Truncated(2 * center_x + width, 2 * TS),
               Truncated(2 * center_y + length, 2 * TS)>>

\* Lines 135-138 with the lower limit left out: min(x1, image.width) only.
ClampToImage_UpperOnly(corners, image) ==
    <<min(corners[1], image[1]), min(corners[2], image[2]),
      min(corners[3], image[1]), min(corners[4], image[2])>>

\* Lines 135-138: the corners brought within the image.
ClampToImage(corners, image) ==
    <<max(0, min(corners[1], image[1])), max(0, min(corners[2], image[2])),
      max(0, min(corners[3], image[1])), max(0, min(corners[4], image[2]))>>

\* Lines 179-189: <<label_x, label_y>> for the clamped corners, the text size
\* <<text_width, text_height>> and the image size.
LabelPosition(corners, text, image) ==
    LET center_x == (corners[1] + corners[3]) \div 2
        center_y == (corners[2] + corners[4]) \div 2
    IN  <<max(10, min(center_x - text[1] \div 2, image[1] - text[1] - 10)),
          max(10, min(center_y - text[2] \div 2, image[2] - text[2] - 10))>>

\* The inputs: detections with a bounding box inside, across and outside the
\* image, with a negative size, with fractions; one with center and size only
\* (the defaults 320, 320, 5, 5 doubled to halves); one whose bounding box is a
\* list.
BoxDetection(x, y, width, height) ==
    [kind |-> "dict", bounding_box |-> <<x, y, width, height>>,
     center_x |-> 0, center_y |-> 0, width |-> 0, length |-> 0]
TileDetections ==
    {BoxDetection(100 * TS, 200 * TS, 50 * TS, 30 * TS),
     BoxDetection(-61, -1, 40 * TS, 700 * TS),
     BoxDetection(600 * TS, 630 * TS, 100 * TS, -20 * TS),
     [kind |-> "none", bounding_box |-> <<>>,
      center_x |-> 320 * TS, center_y |-> 320 * TS, width |-> 5 * TS, length |-> 5 * TS],
     [kind |-> "none", bounding_box |-> <<>>,
      center_x |-> 5 * TS, center_y |-> 900 * TS, width |-> 3 * TS, length |-> 25],
     [kind |-> "list", bounding_box |-> <<>>,
      center_x |-> 0, center_y |-> 0, width |-> 0, length |-> 0]}
\* image.width, image.height of the tile.
TileSizes == {<<640, 640>>, <<256, 200>>}
\* text_width, text_height of a label: two lines of 24-point type with a short
\* and with a long objectId.
TextSizes == {<<180, 52>>, <<700, 52>>}
\* How many detections the data file holds at most.
MaxDetections == 2
DetectionLists ==
    {<<>>} \cup UNION {[1..n -> TileDetections] : n \in 1..MaxDetections}

\* The run as visualize_tile_detections is entered.
StartTile(detections) ==
    [pc |-> "load", detections |-> detections, temp_exists |-> FALSE,
     downloaded |-> FALSE, image |-> <<0, 0>>, detection_count |-> 0,
     corners |-> <<>>, label |-> <<>>, text |-> <<>>,
     output_exists |-> FALSE, status |-> "none"]

TileInit ==
    /\ converter = NoConverter
    /\ args = NoArgs
    /\ ret = NoCall
    /\ callers = [c \in Callers |-> IdleCaller]
    /\ detect = NoDetect
    /\ tile \in {StartTile(detections) : detections \in DetectionLists}

\* Lines 250-259: except Exception, the result with status 'error' returned.
ReturnError(t) == [t EXCEPT !.pc = "returned", !.status = "error"]

\* Lines 56-66: the data file read, which may raise.
LoadData(loaded) ==
    /\ tile.pc = "load"
    /\ tile' = IF loaded THEN [tile EXCEPT !.pc = "download"] ELSE ReturnError(tile)
    /\ UNCHANGED <<converter, args, ret, callers, detect>>

\* Lines 69-72: download_tile_image.  It returns True with the temporary file
\* written; it returns False with no file (the request or the source file
\* failed) or with the file created and not completely written.
DownloadTile(ok, created) ==
    /\ tile.pc = "download"
    /\ ok => created
    /\ tile' = IF ok THEN [tile EXCEPT !.pc = "open", !.temp_exists = TRUE,
                                       !.downloaded = TRUE]
               ELSE ReturnError([tile EXCEPT !.temp_exists = created])
    /\ UNCHANGED <<converter, args, ret, callers, detect>>

\* Lines 75-99: Image.open(temp_tile_path), which may raise; the font.
OpenImage(opened, size) ==
    /\ tile.pc = "open"
    /\ tile' = IF opened THEN [tile EXCEPT !.pc = "draw", !.image = size]
               ELSE ReturnError(tile)
    /\ UNCHANGED <<converter, args, ret, callers, detect>>

\* Lines 103-211: one detection of the loop.  It is drawn with its clamped
\* rectangle and its label, or skipped: its bounding box is not a dictionary
\* (line 121), or a statement of the try block raises (lines 208-211).
DrawDetection(text, raises) ==
    /\ tile.pc = "draw"
    /\ tile.detections # <<>>
    /\ LET Drawn(detection, corners) ==
               IF detection.kind = "list" \/ raises
               THEN [tile EXCEPT !.detections = Tail(@)]
               ELSE [tile EXCEPT !.detections = Tail(@),
                                 !.detection_count = @ + 1,
                                 !.corners = corners,
                                 !.text = text,
                                 !.label = LabelPosition(corners, text, tile.image)]
       IN  tile' = Drawn(Head(tile.detections),
                         ClampToImage(BoxCorners(Head(tile.detections)), tile.image))
    /\ UNCHANGED <<converter, args, ret, callers, detect>>

\* Lines 214-229: title, legend and image.save, which may raise.
SaveImage(saved) ==
    /\ tile.pc = "draw"
    /\ tile.detections = <<>>
    /\ tile' = IF saved THEN [tile EXCEPT !.pc = "cleanup", !.output_exists = TRUE]
               ELSE ReturnError(tile)
    /\ UNCHANGED <<converter, args, ret, callers, detect>>

\* Lines 232-248: the temporary file removed, the result with status
\* 'success' returned.
CleanUp ==
    /\ tile.pc = "cleanup"
    /\ tile' = [tile EXCEPT !.pc = "returned", !.temp_exists = FALSE,
                            !.status = "success"]
    /\ UNCHANGED <<converter, args, ret, callers, detect>>

TileNext ==
    \/ \E loaded \in BOOLEAN : LoadData(loaded)
    \/ \E ok, created \in BOOLEAN : DownloadTile(ok, created)
    \/ \E opened \in BOOLEAN, size \in TileSizes : OpenImage(opened, size)
    \/ \E text \in TextSizes, raises \in BOOLEAN : DrawDetection(text, raises)
    \/ \E saved \in BOOLEAN : SaveImage(saved)
    \/ CleanUp

TileSpec == TileInit /\ [][TileNext]_vars

\* ------------------------------------------------------------ properties
\* The last call was a construction.
IsInit == ret.op = "__init__"
\* The last construction was given positive image dimensions.
PositiveSize == args.image_width > 0 /\ args.image_height > 0
\* The last construction was given a center away from the poles, where the
\* projection is singular.
AwayFromPoles == Abs(args.center_lat) < 90 * DEG

\* The center pixel of the held frame, (image_width / 2, image_height / 2).
CenterPixel == <<Div(args.image_width * PS, 2), Div(args.image_height * PS, 2)>>
AtCenterPixel == ret.op = "pixel_to_lat_lng" /\ ret.src = <<>> /\ ret.arg = CenterPixel

\* C1: on every constructed frame away from the poles, lat_lng_to_pixel of the
\* result of pixel_to_lat_lng(p) returns p within the tolerance (here the two
\* pixels that the rounding of the degree grid amounts to at 0.2 m per pixel).
\* Stated for positive image dimensions.
C1_PixelRoundTrip ==
    ret.op = "lat_lng_to_pixel" /\ ret.src # <<>> /\ PositiveSize /\ AwayFromPoles
        => /\ ret.err = "none"
           /\ Abs(ret.val[1] - ret.src[1]) <= 2 * PS
           /\ Abs(ret.val[2] - ret.src[2]) <= 2 * PS

\* C2: on every constructed frame, for every point g with latitude strictly
\* inside (-90, 90), lat_lng_to_pixel(g) yields a pixel and pixel_to_lat_lng of
\* that pixel returns g within the tolerance (one unit of the degree grid).
\* Stated for positive image dimensions and centers away from the poles.
C2_GeoRoundTrip ==
    /\ ret.op = "lat_lng_to_pixel" /\ ret.src = <<>> /\ PositiveSize /\ AwayFromPoles
            /\ Abs(ret.arg[1]) < 90 * DEG
        => ret.err = "none"
    /\ ret.op = "pixel_to_lat_lng" /\ ret.src # <<>> /\ PositiveSize /\ AwayFromPoles
            /\ Abs(ret.src[1]) < 90 * DEG
        => /\ ret.err = "none"
           /\ Abs(ret.val[1] - ret.src[1]) <= 1
           /\ Abs(ret.val[2] - ret.src[2]) <= 1

\* C3, as claimed: pixel_to_lat_lng(image_width / 2, image_height / 2) returns
\* exactly the center latitude and longitude the frame was constructed with.
C3_CenterExact ==
    AtCenterPixel => ret.val = <<args.center_lat, args.center_lng>>

\* C3, amended: the zero pixel offset adds zero metres to the cached center
\* Mercator point, and the inverse projection returns the center up to the
\* rounding of the two projections (2 units of the degree grid), not exactly.
C3_CenterWithinRounding ==
    AtCenterPixel
        => /\ ret.err = "none"
           /\ MeterOffset(converter, ret.arg[1], ret.arg[2]) = <<0, 0>>
           /\ Abs(ret.val[1] - args.center_lat) <= 2
           /\ Abs(ret.val[2] - args.center_lng) <= 2

\* C3 happens: the frame of main, whose center latitude comes back rounded.
C3_Witness ==
    /\ AtCenterPixel
    /\ args.center_lat = 41552013
    /\ args.image_width = 640
    /\ ret.val[1] # args.center_lat

\* C4: a construction with image_width <= 0 or image_height <= 0 fails with an
\* error and leaves the caller without a frame.
C4_NonPositiveSizeRejected ==
    IsInit /\ (ret.arg[4] <= 0 \/ ret.arg[5] <= 0)
        => ret.err # "none" /\ ~converter.alive

\* C5: a construction with center latitude 90 or -90 and no custom resolution
\* fails with an error and leaves the caller without a frame (stated for
\* positive image dimensions).
C5_PoleWithoutResolutionRejected ==
    IsInit /\ PositiveSize /\ ret.arg[6] = <<>> /\ Abs(ret.arg[1]) = 90 * DEG
        => ret.err # "none" /\ ~converter.alive

\* C6: every frame a construction returns has meters_per_pixel > 0, derived or
\* supplied; a custom_resolution <= 0 is rejected (stated for positive image
\* dimensions and centers away from the poles).
C6_ResolutionPositive ==
    /\ converter.alive /\ PositiveSize /\ AwayFromPoles
        => converter.meters_per_pixel > 0
    /\ IsInit /\ PositiveSize /\ AwayFromPoles
            /\ ret.arg[6] # <<>> /\ ret.arg[6][1] <= 0
        => ret.err # "none"

\* C7: on a constructed frame pixel_to_lat_lng, lat_lng_to_pixel and
\* calculate_distance_from_center return a value and never raise, for every
\* pixel and every geographic input, latitude -90 and 90 included (stated for
\* frames with positive dimensions, a positive resolution and a center away
\* from the poles).
C7_TotalAfterConstruction ==
    /\ ret.op \in {"pixel_to_lat_lng", "lat_lng_to_pixel",
                   "calculate_distance_from_center"}
    /\ PositiveSize /\ AwayFromPoles /\ converter.meters_per_pixel > 0
    => ret.err = "none"

\* C8: on a frame constructed with a custom resolution r, get_resolution_info
\* reports meters_per_pixel = r, whatever the center latitude and the zoom.
C8_OverridePrecedence ==
    ret.op = "get_resolution_info" /\ args.custom_resolution # <<>>
        => ret.err = "none" /\ ret.val[1] = args.custom_resolution[1]

\* C8 happens: the frame of main (0.298 m/px) at the zoom where the formula
\* gives another value, asked for its resolution.
C8_Witness ==
    /\ ret.op = "get_resolution_info"
    /\ args.custom_resolution = <<2980>>
    /\ args.center_lat = 41552013
    /\ _calculate_meters_per_pixel(args.center_lat, args.zoom_level) # 2980
    /\ ret.val[1] = 2980

\* What the call in ret yields on the frame other.
SameCallOn(other) ==
    CASE ret.op = "pixel_to_lat_lng" -> pixel_to_lat_lng(other, ret.arg[1], ret.arg[2])
      [] ret.op = "lat_lng_to_pixel" -> lat_lng_to_pixel(other, ret.arg[1], ret.arg[2])
      [] ret.op = "calculate_distance_from_center" ->
            calculate_distance_from_center(other, ret.arg[1], ret.arg[2])

\* The frame held, constructed at zoom z instead.
AtZoom(z) ==
    GoogleMapsConverter(args.center_lat, args.center_lng, z, args.image_width,
                        args.image_height, args.custom_resolution).obj

\* C9: a frame that differs from the held one only in zoom_level and shares its
\* custom resolution gives the same result for the call just made; and the
\* convenience functions give the same result at every other zoom_level.
C9_ZoomNonInterference ==
    \A z \in Zooms \ {args.zoom_level} :
        /\ converter.alive /\ args.custom_resolution # <<>>
                /\ ret.op \in {"pixel_to_lat_lng", "lat_lng_to_pixel",
                               "calculate_distance_from_center"}
            => SameCallOn(AtZoom(z)) = [err |-> ret.err, val |-> ret.val]
        /\ ret.op = "convert_pixel_to_coordinates" /\ z # ret.arg[5]
            => convert_pixel_to_coordinates(ret.arg[1], ret.arg[2], ret.arg[3],
                    ret.arg[4], z, ret.arg[6], ret.arg[7], ret.arg[8])
               = [err |-> ret.err, val |-> ret.val]
        /\ ret.op = "convert_coordinates_to_pixel" /\ z # ret.arg[5]
            => convert_coordinates_to_pixel(ret.arg[1], ret.arg[2], ret.arg[3],
                    ret.arg[4], z, ret.arg[6], ret.arg[7], ret.arg[8])
               = [err |-> ret.err, val |-> ret.val]

\* C9 happens: a pixel converted on the frame of main with its 0.298 m/px
\* override, at a latitude where the formula gives each zoom its own resolution.
C9_Witness ==
    /\ ret.op = "pixel_to_lat_lng"
    /\ ret.arg = <<514 * PS, 452 * PS>>
    /\ ret.err = "none"
    /\ args.custom_resolution = <<2980>>
    /\ args.center_lat = 41552013
    /\ \A z \in Zooms \ {args.zoom_level} :
          _calculate_meters_per_pixel(args.center_lat, z)
              # _calculate_meters_per_pixel(args.center_lat, args.zoom_level)

\* C10: calculate_distance_from_center returns horizontal = (x - width / 2) *
\* meters_per_pixel and vertical = (y - height / 2) * meters_per_pixel, each
\* rounded to the distance grid, and total = sqrt(horizontal^2 + vertical^2)
\* rounded: total^2 is within total of horizontal^2 + vertical^2.  The pixel
\* offsets are counted in half pixels, which keeps the products in range.
C10_DistanceFormula ==
    ret.op = "calculate_distance_from_center"
        => LET dx == ret.arg[1] - CenterPixel[1]
               dy == ret.arg[2] - CenterPixel[2]
               half == PS \div 2
               unit == ((PS * RS) \div MF) \div half
               squares == AddWide(SquareWide(ret.val[1]), SquareWide(ret.val[2]))
               total2 == SquareWide(ret.val[3])
           IN  /\ ret.err = "none"
               /\ dx % half = 0 /\ dy % half = 0
               /\ 2 * Abs(ret.val[1] * unit - (dx \div half) * converter.meters_per_pixel)
                      <= unit
               /\ 2 * Abs(ret.val[2] * unit - (dy \div half) * converter.meters_per_pixel)
                      <= unit
               /\ ret.val[3] >= 0
               /\ LeqWide(AddWide(total2, <<0, -ret.val[3]>>), squares)
               /\ LeqWide(squares, AddWide(total2, <<0, ret.val[3]>>))

\* C10 happens: main's pixel (514, 452) on main's frame is 57.812 m east and
\* 39.336 m south of the center, 69.925 m away.
C10_Witness ==
    /\ ret.op = "calculate_distance_from_center"
    /\ ret.arg = <<514 * PS, 452 * PS>>
    /\ args.custom_resolution = <<2980>>
    /\ args.image_width = 640 /\ args.image_height = 640
    /\ ret.val = <<57812, 39336, 69925>>


\* The scenario of main: the frame at (41.552013, -70.601921), zoom 19,
\* 640 x 640, 0.298 m/px, asked for the distance of pixel (514, 452).
MainFrame ==
    /\ converter.alive
    /\ args = MainArgs
MainDistance ==
    /\ MainFrame
    /\ ret.op = "calculate_distance_from_center"
    /\ ret.arg = <<514 * PS, 452 * PS>>

\* C11, as claimed: in the scenario of main the distance is horizontal 57.812 m,
\* vertical 39.336 m and total 69.95 m (to the two decimals the claim gives).
C11_MainDistanceAsClaimed ==
    MainDistance
        => /\ ret.err = "none"
           /\ ret.val[1] = 57812
           /\ ret.val[2] = 39336
           /\ 2 * Abs(ret.val[3] - 69950) <= MF \div 100

\* C11, amended: horizontal 57.812 m, vertical 39.336 m and total
\* sqrt(57.812^2 + 39.336^2) = 69.925 m.
C11_MainDistance ==
    MainDistance => ret.err = "none" /\ ret.val = <<57812, 39336, 69925>>

\* C11 happens: the distance of (514, 452) asked of the frame of main.
C11_Witness == MainDistance /\ ret.err = "none" /\ ret.val[3] > ret.val[1]

\* C12: on every constructed frame calculate_distance_from_center(image_width / 2,
\* image_height / 2) returns horizontal 0, vertical 0 and total 0 exactly.
C12_ZeroAtCenter ==
    ret.op = "calculate_distance_from_center" /\ ret.arg = CenterPixel
        => ret.err = "none" /\ ret.val = <<0, 0, 0>>

\* C12 happens: the distance of the center pixel (320.5, 240) asked of a
\* 641 x 480 frame whose resolution comes from latitude and zoom.
C12_Witness ==
    /\ ret.op = "calculate_distance_from_center"
    /\ ret.arg = CenterPixel
    /\ args.image_width = 641
    /\ args.custom_resolution = <<>>
    /\ converter.meters_per_pixel > 1

\* The last call was _calculate_meters_per_pixel(lat, zoom).
IsResolution == ret.op = "_calculate_meters_per_pixel"

\* C13: for every latitude and zoom, the resolution at zoom + 1 is the
\* resolution at zoom divided by 2 (up to the rounding of the two results on the
\* resolution grid: twice the finer one is within one unit of the coarser).
C13_DoublingLaw ==
    IsResolution
        => Abs(2 * _calculate_meters_per_pixel(ret.arg[1], ret.arg[2] + 1) - ret.val[1]) <= 1

\* C13 happens: the resolution at the latitude of main at zoom 18, 0.4469 m/px,
\* twice the 0.2234 m/px of zoom 19 up to the last digit.
C13_Witness ==
    /\ IsResolution
    /\ ret.arg = <<41552013, 18>>
    /\ ret.val = <<4469>>
    /\ _calculate_meters_per_pixel(41552013, 19) = 2234

\* C16: for every latitude strictly between -90 and 90 and every longitude,
\* _mercator_to_lat_lng of the result of _lat_lng_to_mercator returns the
\* latitude and longitude (within 2 units of the degree grid); and
\* _lat_lng_to_mercator of the result of _mercator_to_lat_lng returns the
\* Mercator point (within 3.2 m, what 2.5 units of the degree grid span at the
\* map's northern and southern edges).
C16_ProjectionInverse ==
    /\ ret.op = "_lat_lng_to_mercator" /\ ret.src = <<>> /\ Abs(ret.arg[1]) < 90 * DEG
        => ret.err = "none"
    /\ ret.op = "_mercator_to_lat_lng" /\ ret.src # <<>> /\ Abs(ret.src[1]) < 90 * DEG
        => /\ ret.err = "none"
           /\ Abs(ret.val[1] - ret.src[1]) <= 2
           /\ Abs(ret.val[2] - ret.src[2]) <= 2
    /\ ret.op = "_lat_lng_to_mercator" /\ ret.src # <<>>
        => /\ ret.err = "none"
           /\ Abs(ret.arg[1]) < 90 * DEG
           /\ Abs(ret.val[1] - ret.src[1]) <= 32
           /\ Abs(ret.val[2] - ret.src[2]) <= 32

\* C16 happens: the center of main projected and brought back, its latitude
\* one unit off.
C16_Witness ==
    /\ ret.op = "_mercator_to_lat_lng"
    /\ ret.src = <<41552013, -70601921>>
    /\ ret.arg = <<-78593699, 50941076>>
    /\ ret.val = <<41552014, -70601921>>

\* C17: the resolution computed for latitude 0 and zoom 0 is 156543.03392 m/px
\* (to the resolution grid, 156543.0339).
C17_EquatorReference ==
    IsResolution /\ ret.arg = <<0, 0>> => ret.val = <<1565430339>>

\* C17 happens: the resolution asked for latitude 0 and zoom 0.
C17_Witness == IsResolution /\ ret.arg = <<0, 0>> /\ ret.err = "none"

\* C15: a construction with a center latitude outside [-90, 90] or a center
\* longitude outside [-180, 180] fails with an error and leaves the caller
\* without a frame (stated for positive image dimensions and a center away from
\* the poles, where the construction fails for no other reason).
C15_OutOfDomainRejected ==
    IsInit /\ PositiveSize /\ AwayFromPoles
           /\ (Abs(ret.arg[1]) > 90 * DEG \/ Abs(ret.arg[2]) > 180 * DEG)
        => ret.err # "none" /\ ~converter.alive

\* The last call was calculate_distance_from_center on a frame.
IsDistance == converter.alive /\ ret.op = "calculate_distance_from_center"

\* C20: for every frame and pixel (x, y), the horizontal distance returned by
\* calculate_distance_from_center equals the Mercator x offset pixel_to_lat_lng
\* adds to the center for that pixel, and the vertical distance equals the
\* negation of the Mercator y offset it adds.
C20_SameLinearScale ==
    IsDistance
        => /\ ret.err = "none"
           /\ ret.val[1] = MeterOffset(converter, ret.arg[1], ret.arg[2])[1]
           /\ ret.val[2] = -MeterOffset(converter, ret.arg[1], ret.arg[2])[2]

\* C20 happens: a pixel right of and below the center of a 641 x 480 frame,
\* at a positive vertical distance where the Mercator y offset is negative.
C20_Witness ==
    /\ IsDistance
    /\ args.image_width = 641
    /\ ret.arg = <<514 * PS, 452 * PS>>
    /\ ret.val[1] > 0
    /\ ret.val[2] > 0
    /\ MeterOffset(converter, ret.arg[1], ret.arg[2])[2] < 0

\* The last call was pixel_to_lat_lng on a frame of positive resolution.
IsPixelMapping ==
    converter.alive /\ ret.op = "pixel_to_lat_lng" /\ converter.meters_per_pixel > 0
\* What pixel_to_lat_lng returns on the frame for another pixel.
MappedAt(x, y) == pixel_to_lat_lng(converter, x, y).val
\* The pixel steps compared: a thousandth of a pixel, one pixel, 100 pixels.
AxisSteps == {1, PS, 100 * PS}
\* A step of 100 pixels to the right changes only the longitude and makes it
\* larger; a step of 100 pixels down changes only the latitude and makes it
\* smaller.
StrictAxes ==
    /\ MappedAt(ret.arg[1] + 100 * PS, ret.arg[2])[2] > ret.val[2]
    /\ MappedAt(ret.arg[1] + 100 * PS, ret.arg[2])[1] = ret.val[1]
    /\ MappedAt(ret.arg[1], ret.arg[2] + 100 * PS)[1] < ret.val[1]
    /\ MappedAt(ret.arg[1], ret.arg[2] + 100 * PS)[2] = ret.val[2]

ReadOps ==
    {"pixel_to_lat_lng", "lat_lng_to_pixel", "get_resolution_info",
     "calculate_distance_from_center"}

\* C14: a call of pixel_to_lat_lng, lat_lng_to_pixel, get_resolution_info or
\* calculate_distance_from_center on a constructed frame leaves every field of
\* the frame as it was (center latitude and longitude, zoom level, image width
\* and height, meters_per_pixel and center_mercator), so no sequence of them
\* changes the frame and center_mercator stays the value the constructor computed.
C14_FrameImmutable ==
    [][converter.alive /\ ret'.op \in ReadOps => converter' = converter]_vars

\* C14 happens: after pixel_to_lat_lng and then lat_lng_to_pixel on its result,
\* the frame is the one the constructor made from its arguments.
C14_Witness ==
    /\ converter.alive
    /\ ret.op = "lat_lng_to_pixel"
    /\ ret.src # <<>>
    /\ converter = GoogleMapsConverter(args.center_lat, args.center_lng, args.zoom_level,
                                       args.image_width, args.image_height,
                                       args.custom_resolution).obj

\* What a read method returns or raises when it runs alone on the frame
\* constructed from args: <<err, val>>.
Alone(op, arg) ==
    LET On(self) ==
            LET Outcome(out) == <<out.err, out.val>>
            IN  Outcome(CASE op = "pixel_to_lat_lng" -> pixel_to_lat_lng(self, arg[1], arg[2])
                          [] op = "lat_lng_to_pixel" -> lat_lng_to_pixel(self, arg[1], arg[2])
                          [] op = "get_resolution_info" -> get_resolution_info(self)
                          [] op = "calculate_distance_from_center" ->
                                 calculate_distance_from_center(self, arg[1], arg[2]))
    IN  On(GoogleMapsConverter(args.center_lat, args.center_lng, args.zoom_level,
                               args.image_width, args.image_height,
                               args.custom_resolution).obj)

\* C18: when callers are inside pixel_to_lat_lng, lat_lng_to_pixel,
\* get_resolution_info and calculate_distance_from_center on the same frame at
\* the same time, their steps interleaved in any order, every call that ends
\* returns (or raises) what it does when run alone on the frame, and the frame
\* is the one that was constructed.
C18_ConcurrentReads ==
    /\ converter = GoogleMapsConverter(args.center_lat, args.center_lng, args.zoom_level,
                                       args.image_width, args.image_height,
                                       args.custom_resolution).obj
    /\ \A c \in Callers :
           callers[c].pc = "done"
               => <<callers[c].err, callers[c].val>> = Alone(callers[c].op, callers[c].arg)

\* C18 happens: one caller's lat_lng_to_pixel has ended while another is inside
\* pixel_to_lat_lng, between its reads of meters_per_pixel and center_mercator.
C18_Witness ==
    \E c, d \in Callers :
        /\ Inside(c, "lat_lng_to_pixel", "done")
        /\ callers[c].err = "none"
        /\ Inside(d, "pixel_to_lat_lng", "meters")

\* C21: a construction that fails hands the caller an error and no frame
\* object; one that succeeds hands over a frame with every field set,
\* center_mercator and meters_per_pixel included.  No frame with only some of
\* its fields set is observable.
C21_AtomicConstruction ==
    /\ IsInit /\ ret.err # "none" => converter = NoConverter
    /\ converter.alive
           => /\ converter.center_mercator =
                     _lat_lng_to_mercator(args.center_lat, args.center_lng).val
              /\ converter.meters_per_pixel =
                     IF args.custom_resolution # <<>> THEN args.custom_resolution[1]
                     ELSE _calculate_meters_per_pixel(args.center_lat, args.zoom_level)
              /\ <<converter.center_lat, converter.center_lng, converter.zoom_level,
                   converter.image_width, converter.image_height>>
                     = <<args.center_lat, args.center_lng, args.zoom_level,
                         args.image_width, args.image_height>>

\* C21 happens: the construction centred on latitude -90 has raised the
\* ValueError of math.log and the caller holds no frame.
C21_Witness ==
    /\ IsInit
    /\ ret.arg[1] = -90 * DEG
    /\ ret.err = "ValueError"
    /\ ~converter.alive

\* The last call was lat_lng_to_pixel with the frame's own center.
AtCenterGeo ==
    /\ converter.alive
    /\ ret.op = "lat_lng_to_pixel"
    /\ ret.src = <<>>
    /\ ret.arg = <<converter.center_lat, converter.center_lng>>

\* C22: on every constructed frame with a non-zero resolution, lat_lng_to_pixel
\* of the frame's own center latitude and longitude returns exactly
\* (image_width / 2, image_height / 2).
C22_InverseCenterExact ==
    AtCenterGeo /\ converter.meters_per_pixel # 0
        => ret.err = "none" /\ ret.val = CenterPixel

\* C22 happens: the center asked of a 641 x 480 frame centred on latitude
\* 41.552013, which returns (320.5, 240).
C22_Witness ==
    /\ AtCenterGeo
    /\ args.center_lat = 41552013
    /\ args.image_width = 641
    /\ ret.val = <<320500, 240000>>

RateLimitMessages == {MsgRateLimit, MsgQuota, Msg429}

\* C24: in detect_and_measure_boats the detector is called at most 3 times;
\* every call after the first follows a wait, every wait follows a failure whose
\* message contains 'rate limit', 'quota' or '429' (letter case aside); the waits
\* are 2 seconds and then 4 seconds; a failure with any other message is the
\* last call; and a call that succeeds is the last call.
C24_RetryProtocol ==
    detect.pc # "none"
        => /\ detect.calls <= 3
           /\ detect.calls <= Len(detect.slept) + 1
           /\ Len(detect.slept) <= 2
           /\ detect.slept = SubSeq(<<2, 4>>, 1, Len(detect.slept))
           /\ \A i \in 1..Len(detect.slept) : detect.failures[i] \in RateLimitMessages
           /\ \A i \in 1..Len(detect.failures) :
                  detect.failures[i] \notin RateLimitMessages
                      => i = detect.calls /\ detect.pc \in {"returned", "exited"}
           /\ detect.detected
                  => /\ detect.pc \in {"measure", "returned", "exited"}
                     /\ detect.calls = Len(detect.failures) + 1

\* C24 happens: 'Rate Limit' and then 'HTTP 429' were raised, 2 and 4 seconds
\* were waited, and the third call returned boats.
C24_Witness ==
    /\ detect.pc = "measure"
    /\ detect.failures = <<MsgRateLimit, Msg429>>
    /\ detect.slept = <<2, 4>>
    /\ detect.calls = 3
    /\ detect.detected

\* C25: when the run of boat_detection.py has ended and an exception was raised
\* inside detect_and_measure_boats (the detector failing on its last attempt,
\* or any other step), main has printed status 'error' with the exception's
\* message and exited with code 1; status 'success' is printed only when
\* detect_and_measure_boats ran to its end.
C25_FailureReported ==
    detect.pc = "exited"
        => /\ detect.caught # <<>>
                  => /\ detect.status = "error"
                     /\ detect.error = detect.caught
                     /\ detect.exit_code = 1
           /\ detect.status = "success" => detect.completed

\* A detection has been drawn in the run of visualize_tile_detections.
IsDrawn == tile.pc # "none" /\ tile.corners # <<>>

\* C26: for every detection that is drawn, the rectangle corners satisfy
\* 0 <= x1 <= image.width, 0 <= x2 <= image.width, 0 <= y1 <= image.height and
\* 0 <= y2 <= image.height.
C26_BoxWithinImage ==
    IsDrawn
        => /\ 0 <= tile.corners[1] /\ tile.corners[1] <= tile.image[1]
           /\ 0 <= tile.corners[3] /\ tile.corners[3] <= tile.image[1]
           /\ 0 <= tile.corners[2] /\ tile.corners[2] <= tile.image[2]
           /\ 0 <= tile.corners[4] /\ tile.corners[4] <= tile.image[2]

\* C26 happens: the box at (-30.5, -0.5) of 40 x 700 drawn on a 640 x 640
\* tile, its corners brought to (0, 0) and (9, 640).
C26_Witness ==
    /\ IsDrawn
    /\ tile.image = <<640, 640>>
    /\ tile.corners = <<0, 0, 9, 640>>

\* C27: for every detection that is drawn, the label text rectangle lies within
\* the image with a 10-pixel margin: label_x >= 10, label_x + text_width <=
\* image.width - 10, label_y >= 10 and label_y + text_height <= image.height - 10
\* (stated for the 640 x 640 tile).
C27_LabelWithinMargins ==
    IsDrawn /\ tile.image = <<640, 640>>
        => /\ tile.label[1] >= 10
           /\ tile.label[1] + tile.text[1] <= tile.image[1] - 10
           /\ tile.label[2] >= 10
           /\ tile.label[2] + tile.text[2] <= tile.image[2] - 10

\* C28: whenever visualize_tile_detections has returned after the tile was
\* downloaded, with success or with an error, the temporary tile file no longer
\* exists.
C28_TempFileRemoved ==
    tile.pc = "returned" /\ tile.downloaded => ~tile.temp_exists
====
